---- MODULE Spec2Model ----
(***************************************************************************)
(* Digital Garden Blog: the HTTP server (basic-server.js, second half of   *)
(* src/public/js/api.js), the API client (first half of api.js), the Demo  *)
(* API (first half of src/public/js/demo-mode.js) and the application      *)
(* controller (second half of demo-mode.js).                               *)
(*                                                                         *)
(* The specifications share the variables:                                 *)
(*   SpecServer  the server's request handler and its callbacks            *)
(*   SpecDemo    one page holding a DemoAPI instance, its timers, reloads  *)
(*   SpecApp     the controller, its fetches and the page's local storage  *)
(*   SpecLogin   one pair of credentials on the server and the Demo API    *)
(*   SpecClient  one page holding an APIClient                             *)
(*   SpecAppClient  the controller and the APIClient on one page           *)
(*   SpecLoad    the controller loading posts while time passes            *)
(*   SpecEditor  the controller's editor against the server of api.js      *)
(*   SpecEditorOther  the editor against a backend that has the routes     *)
(***************************************************************************)
EXTENDS Integers, Sequences, FiniteSets, TLC

VARIABLES
    now,          \* the clock, Date.now(), in milliseconds
    srvPending,   \* login requests whose 'end' event has not fired yet
    srvLast,      \* the last request answered by the server, with its response
    srvPosts,     \* every GET /api/posts response sent so far, with its time
    storage,      \* the browser's localStorage: key -> string, Null when absent
    isLoggedIn,   \* DemoAPI.isLoggedIn
    dposts,       \* DemoAPI.posts
    timers,       \* the DemoAPI calls whose setTimeout callback has not run yet
    dlast,        \* the last DemoAPI callback that ran (or the last reload)
    ncalls,       \* DemoAPI calls made so far
    hostname,     \* window.location.hostname of the page
    pc,           \* "opened" until a script has run, the script's name while it is the
                  \* only one that has run, "loading" until initializeApp has run,
                  \* then "ready"
    currentUser,  \* the controller's currentUser
    posts,        \* the controller's posts
    dataTheme,    \* the data-theme attribute of the html element
    fetches,      \* the controller's fetch calls that are not settled yet
    restore,      \* what the last reload did to the session of a logged-in user
    themeBefore,  \* the theme applied when the page was reloaded
    input,        \* the credentials a login is tried with
    token,        \* window.apiClient.token
    tokenCalls,   \* the setToken and clearToken calls made on the page so far
    lastLoad,     \* the loadPosts response that arrived last on the page
    postsGrid,    \* what renderPosts left in #postsGrid
    editingPostId, \* window.editingPostId
    submitBtn,    \* the text of the submit button of #createPostForm
    form,         \* the title and content fields of the editor
    lastEdit,     \* how the last createPost, updatePost or deletePost ended
    APP_CONFIG,   \* window.APP_CONFIG
    demoAPI       \* window.demoAPI

srvVars == <<srvPending, srvLast, srvPosts>>
demoVars == <<isLoggedIn, dposts, timers, dlast, ncalls>>
appVars == <<hostname, pc, currentUser, posts, dataTheme, fetches, restore, themeBefore>>
clientVars == <<token, tokenCalls>>
ctlVars == <<lastLoad, postsGrid, editingPostId, submitBtn, form, lastEdit>>
configVars == <<APP_CONFIG, demoAPI>>
pageVars == <<storage, demoVars, appVars, input, configVars, clientVars, ctlVars>>
vars == <<now, srvVars, pageVars>>

(***************************************************************************)
(* Bounds of the model.                                                    *)
(***************************************************************************)
StartTime == 1000      \* the clock when the model starts (any time after 3 ms)
SrvMaxTicks == 1       \* milliseconds that pass while the server runs
MaxPending == 1        \* login requests in flight on the server at once
MaxCalls == 2          \* DemoAPI calls made in one run
MaxFetches == 2        \* fetch calls of the controller in flight at once
MaxTokenCalls == 3     \* setToken and clearToken calls made on one page
AppMaxTicks == 1       \* milliseconds that pass while the controller runs
MaxLabels == 2         \* labels in front of the domain of a page's hostname
MaxAppTokenCalls == 1  \* setToken and clearToken calls per page load next to the controller

(***************************************************************************)
(* JavaScript values. Every value carries its type, so that === between    *)
(* values of different types is FALSE.                                     *)
(***************************************************************************)
Undefined == [t |-> "undefined"]
Null == [t |-> "null"]
Str(s) == [t |-> "string", s |-> s]
Num(n) == [t |-> "number", n |-> n]
Arr(a) == [t |-> "array", a |-> a]
EmptyArray == Arr(<<>>)
Obj(f) == [t |-> "object", f |-> f]

\* o.k for any value o that is not null or undefined
Get(o, k) == IF o.t = "object" /\ k \in DOMAIN o.f THEN o.f[k] ELSE Undefined

(***************************************************************************)
(* JSON texts of request bodies: real strings.                             *)
(***************************************************************************)
CredentialKeys == {"username", "password"}
CredentialStrings == {"admin", "admin123", "Admin", ""}

CredentialObjects(strings) ==
    UNION {[ks -> {Str(s) : s \in strings}] : ks \in SUBSET CredentialKeys}

\* the JSON values whose texts the model knows
JSONValues ==
    {Null, Num(42), EmptyArray} \cup {Obj(f) : f \in CredentialObjects(CredentialStrings)}

\* the JSON values sent to the server as request bodies
BodyValues ==
    {Null, Num(42), EmptyArray} \cup {Obj(f) : f \in CredentialObjects({"admin", "admin123"})}

PrimitiveText(v) ==
    CASE v.t = "null" -> "null"
      [] v.t = "number" -> ToString(v.n)
      [] v.t = "string" -> "\"" \o v.s \o "\""
      [] v.t = "array" -> "[]"

MemberText(f, k) == "\"" \o k \o "\":" \o PrimitiveText(f[k])

\* JSON.stringify: a member whose value is undefined is left out
JSONStringify(v) ==
    IF v.t # "object" THEN PrimitiveText(v)
    ELSE LET f == v.f
             ks == {k \in DOMAIN f : f[k] # Undefined}
         IN  CASE ks = {} -> "{}"
               [] ks = {"username"} -> "{" \o MemberText(f, "username") \o "}"
               [] ks = {"password"} -> "{" \o MemberText(f, "password") \o "}"
               [] OTHER -> "{" \o MemberText(f, "username") \o ","
                               \o MemberText(f, "password") \o "}"

MalformedTexts == {"", "{", "{\"username\":\"admin\""}

\* JSON.parse: the value whose text this is, or a SyntaxError
JSONParse(text) ==
    IF \E v \in JSONValues : JSONStringify(v) = text
    THEN [ok |-> TRUE, value |-> CHOOSE v \in JSONValues : JSONStringify(v) = text]
    ELSE [ok |-> FALSE]

BodyTexts == {JSONStringify(v) : v \in BodyValues} \cup MalformedTexts

\* a request body as the chunks of its 'data' events
AdminLoginChunks == <<"{\"username\":\"admin\",", "\"password\":\"admin123\"}">>
BodyChunks == {IF b = "" THEN <<>> ELSE <<b>> : b \in BodyTexts} \cup {AdminLoginChunks}

(***************************************************************************)
(* The server: http.createServer((req, res) => ...)                        *)
(***************************************************************************)
DayMs == 86400000

\* new Date(t).toISOString(): one text per millisecond
toISOString(t) == "T" \o ToString(t)

EmptyBody == [t |-> "empty"]
JsonBody(v) == [t |-> "json", v |-> v]
Response(status, body) == [status |-> status, body |-> body]

LoginOK ==
    [success |-> TRUE,
     message |-> "Login successful!",
     token |-> "fake-jwt-token-12345",
     user |-> [id |-> "1", username |-> "admin", email |-> "admin@blog.com",
               role |-> "admin"]]

InvalidCredentials == [success |-> FALSE, message |-> "Invalid credentials"]
InvalidJSON == [success |-> FALSE, message |-> "Invalid JSON"]

\* mutant: the second post is dated now as well
SecondPostTime_Now(t) == t

\* Date.now() - 86400000
SecondPostTime(t) == t - DayMs

ServerPosts(t) ==
    <<[id |-> 1,
       title |-> "Welcome to Digital Garden",
       content |-> "This is your first post! Start writing amazing content.",
       excerpt |-> "Welcome to your new digital garden where ideas bloom.",
       author |-> "Admin",
       date |-> toISOString(t),
       tags |-> <<"welcome", "first-post">>,
       published |-> TRUE],
      [id |-> 2,
       title |-> "Getting Started with Blogging",
       content |-> "Here are some tips to get started with your blog...",
       excerpt |-> "Essential tips for new bloggers to create engaging content.",
       author |-> "Admin",
       date |-> toISOString(SecondPostTime(t)),
       tags |-> <<"blogging", "tips">>,
       published |-> TRUE]>>

PostsBody(t) == [success |-> TRUE, posts |-> ServerPosts(t)]

\* mutant: a default response that reports success
ServiceDescriptor_Success == [success |-> TRUE, message |-> "Digital Garden Blog API Server"]

ServiceDescriptor ==
    [message |-> "Digital Garden Blog API Server",
     version |-> "1.0.0",
     endpoints |-> [login |-> "User authentication", posts |-> "Fetch blog posts"],
     status |-> "running"]

\* mutant: the password is not compared
CredentialsMatch_UsernameOnly(username, password) == username = Str("admin")

\* data.username === 'admin' && data.password === 'admin123'
CredentialsMatch(username, password) ==
    username = Str("admin") /\ password = Str("admin123")

\* the 'end' callback of the login route: try { JSON.parse ... } catch { 400 }
\* (reading data.username of null throws a TypeError, which the catch takes too)
LoginResponse(body) ==
    LET parsed == JSONParse(body)
    IN  IF ~parsed.ok \/ parsed.value = Null
        THEN Response(400, JsonBody(InvalidJSON))
        ELSE IF CredentialsMatch(Get(parsed.value, "username"),
                                 Get(parsed.value, "password"))
             THEN Response(200, JsonBody(LoginOK))
             ELSE Response(400, JsonBody(InvalidCredentials))

Methods == {"GET", "POST", "PUT", "DELETE", "OPTIONS"}
Urls == {"/api/auth/login", "/api/posts", "/api/auth/verify", "/api/posts/1",
         "/api/posts?page=1"}

IsPreflight(m) == m = "OPTIONS"
IsLoginRoute(m, u) == m = "POST" /\ u = "/api/auth/login"
\* mutant: the method is not compared
IsPostsRoute_AnyMethod(m, u) == u = "/api/posts"

IsPostsRoute(m, u) == m = "GET" /\ u = "/api/posts"

\* what the handler writes for a request that is answered at once
ImmediateResponse(m, u, t) ==
    IF IsPreflight(m) THEN Response(200, EmptyBody)
    ELSE IF IsPostsRoute(m, u) THEN Response(200, JsonBody(PostsBody(t)))
    ELSE Response(200, JsonBody(ServiceDescriptor))

\* the bodies a request is sent with: only the login route reads its body
RequestChunks(m, u) == IF IsLoginRoute(m, u) THEN BodyChunks ELSE {<<>>}

Request(m, u, body) == [method |-> m, url |-> u, body |-> body]
NoRequest == [method |-> "none"]

SrvInit ==
    /\ srvPending = {}
    /\ srvLast = [req |-> NoRequest]
    /\ srvPosts = {}

\* the request handler up to its return
SrvRequest(m, u, chunks) ==
    /\ IF ~IsPreflight(m) /\ IsLoginRoute(m, u)
       THEN /\ Cardinality(srvPending) < MaxPending
            /\ srvPending' = srvPending \cup {[chunks |-> chunks, body |-> ""]}
            /\ UNCHANGED <<srvLast, srvPosts>>
       ELSE /\ srvLast' = [req |-> Request(m, u, ""), at |-> now,
                           res |-> ImmediateResponse(m, u, now)]
            /\ srvPosts' = IF ~IsPreflight(m) /\ IsPostsRoute(m, u)
                           THEN srvPosts \cup {[at |-> now, body |-> PostsBody(now)]}
                           ELSE srvPosts
            /\ UNCHANGED srvPending
    /\ UNCHANGED <<now, pageVars>>

\* req.on('data', chunk => { body += chunk.toString(); })
SrvData(p) ==
    /\ p \in srvPending
    /\ p.chunks # <<>>
    /\ srvPending' = (srvPending \ {p}) \cup
                     {[chunks |-> Tail(p.chunks), body |-> p.body \o Head(p.chunks)]}
    /\ UNCHANGED <<now, srvLast, srvPosts, pageVars>>

\* req.on('end', () => { ... })
SrvEnd(p) ==
    /\ p \in srvPending
    /\ p.chunks = <<>>
    /\ srvPending' = srvPending \ {p}
    /\ srvLast' = [req |-> Request("POST", "/api/auth/login", p.body),
                   res |-> LoginResponse(p.body)]
    /\ UNCHANGED <<now, srvPosts, pageVars>>

\* time passes
SrvTick ==
    /\ now < StartTime + SrvMaxTicks
    /\ now' = now + 1
    /\ UNCHANGED <<srvVars, pageVars>>

(***************************************************************************)
(* localStorage                                                            *)
(***************************************************************************)
StorageKeys == {"authToken", "theme", "demo_logged_in", "demo_user", "demo_posts"}

EmptyStorage == [k \in StorageKeys |-> Null]

getItem(s, k) == s[k]
setItem(s, k, v) == [s EXCEPT ![k] = v]
removeItem(s, k) == [s EXCEPT ![k] = Null]

(***************************************************************************)
(* JSON texts of stored objects. An object is a function from its keys to  *)
(* their values; its text holds the members whose value is not undefined.  *)
(***************************************************************************)
JsonText(v) == [t |-> "string", json |-> v]

\* o.k of an object
Prop(o, k) == IF k \in DOMAIN o THEN o[k] ELSE Undefined

StringifyObject(o) == [k \in {j \in DOMAIN o : o[j] # Undefined} |-> o[k]]

\* JSON.stringify(this.posts)
StringifyPosts(list) == JsonText([i \in 1..Len(list) |-> StringifyObject(list[i])])

\* JSON.parse(localStorage.getItem(...)): JSON.parse(null) is null
ParseItem(item) == IF item = Null THEN Null ELSE item.json

(***************************************************************************)
(* class APIClient                                                         *)
(***************************************************************************)
\* a value that is truthy: tokens and stored strings are strings, null or undefined
Truthy(v) == v # Null /\ v # Undefined /\ v # Str("")

\* new APIClient(): this.token = localStorage.getItem('authToken')
APIClientConstructor(s) == getItem(s, "authToken")

\* mutant: setToken without persistence
setToken_NoPersist(tok, s) == [token |-> tok, storage |-> s]

\* setToken(token): the client's token and the storage it leaves
setToken(tok, s) ==
    [token |-> tok,
     storage |-> IF Truthy(tok) THEN setItem(s, "authToken", tok)
                 ELSE removeItem(s, "authToken")]

\* getToken()
getToken(tok) == tok

\* clearToken()
clearToken(s) == [token |-> Null, storage |-> removeItem(s, "authToken")]

\* tokens given to setToken: two tokens, the empty string, null and nothing
TokenInputs ==
    {Str("fake-jwt-token-12345"), Str("demo_token_1500"), Str(""), Null, Undefined}

NoClient ==
    /\ token = Null
    /\ tokenCalls = <<>>

\* storage a page can start with: none, or a token stored earlier
ClientStorages == {EmptyStorage, setItem(EmptyStorage, "authToken", Str("fake-jwt-token-12345"))}

\* the page's script ran: window.apiClient = new APIClient()
ClientInit ==
    /\ storage \in ClientStorages
    /\ token = APIClientConstructor(storage)
    /\ tokenCalls = <<>>

\* window.apiClient.setToken(tok)
SetTokenWithin(limit, tok) ==
    /\ Len(tokenCalls) < limit
    /\ token' = setToken(tok, storage).token
    /\ storage' = setToken(tok, storage).storage
    /\ tokenCalls' = Append(tokenCalls, [op |-> "setToken", arg |-> tok])
    /\ UNCHANGED <<now, srvVars, demoVars, appVars, input, configVars, ctlVars>>

SetToken(tok) == SetTokenWithin(MaxTokenCalls, tok)

\* window.apiClient.clearToken()
ClearTokenWithin(limit) ==
    /\ Len(tokenCalls) < limit
    /\ token' = clearToken(storage).token
    /\ storage' = clearToken(storage).storage
    /\ tokenCalls' = Append(tokenCalls, [op |-> "clearToken"])
    /\ UNCHANGED <<now, srvVars, demoVars, appVars, input, configVars, ctlVars>>

ClearToken == ClearTokenWithin(MaxTokenCalls)

\* the page is loaded again: window.apiClient = new APIClient()
ClientReload ==
    /\ tokenCalls # <<>>
    /\ token' = APIClientConstructor(storage)
    /\ tokenCalls' = <<>>
    /\ UNCHANGED <<now, srvVars, storage, demoVars, appVars, input, configVars, ctlVars>>

(***************************************************************************)
(* DEMO_MODE and class DemoAPI                                             *)
(***************************************************************************)
mockUser ==
    [id |-> Num(1), username |-> Str("admin"), email |-> Str("admin@digitalgarden.com"),
     name |-> Str("Demo Admin")]

mockPosts ==
    <<[id |-> Num(1),
       title |-> Str("Welcome to Digital Garden"),
       content |-> Str("This is a demo post showing how the blog looks with content. In a full deployment, this would be connected to a MongoDB database with real user authentication."),
       author |-> Str("Demo Admin"),
       date |-> Str("2025-09-18"),
       tags |-> Arr(<<"welcome", "demo">>),
       excerpt |-> Str("Welcome to our beautiful digital garden blog...")],
      [id |-> Num(2),
       title |-> Str("Features of This Blog"),
       content |-> Str("This blog includes: Beautiful responsive design, Dark/Light theme toggle, User authentication (demo mode)"),
       author |-> Str("Demo Admin"),
       date |-> Str("2025-09-17"),
       tags |-> Arr(<<"features", "design">>),
       excerpt |-> Str("Explore all the amazing features built into this blog...")],
      [id |-> Num(3),
       title |-> Str("How to Deploy with Backend"),
       content |-> Str("To get full functionality: 1. Deploy the Node.js backend to a service like Heroku, Railway, or Vercel"),
       author |-> Str("Demo Admin"),
       date |-> Str("2025-09-16"),
       tags |-> Arr(<<"deployment", "guide">>),
       excerpt |-> Str("Learn how to deploy the full-stack version...")]>>

\* mutant: the list is not written to storage
savePostsToStorage_Skip(s, list) == s

\* savePostsToStorage()
savePostsToStorage(s, list) == setItem(s, "demo_posts", StringifyPosts(list))

\* JSON.parse(localStorage.getItem('demo_posts')) || DEMO_MODE.mockPosts
\* (an array, also an empty one, is truthy)
LoadPosts(s) ==
    IF getItem(s, "demo_posts") = Null THEN mockPosts
    ELSE ParseItem(getItem(s, "demo_posts"))

\* new DemoAPI(): the instance and the storage it leaves
DemoConstructor(s) ==
    [isLoggedIn |-> getItem(s, "demo_logged_in") = Str("true"),
     posts |-> LoadPosts(s),
     storage |-> savePostsToStorage(s, LoadPosts(s))]

LoginDelay == 500
LogoutDelay == 300
GetPostsDelay == 300
CreatePostDelay == 500
DeletePostDelay == 400

Delay(op) ==
    CASE op = "login" -> LoginDelay
      [] op = "logout" -> LogoutDelay
      [] op = "getPosts" -> GetPostsDelay
      [] op = "createPost" -> CreatePostDelay
      [] op = "deletePost" -> DeletePostDelay

\* s.substring(0, n) of a string
substring(s, n) == IF Len(s) <= n THEN s ELSE SubSeq(s, 1, n)

\* new Date(t).toISOString().split('T')[0]: one text per day
DateOf(t) == "D" \o ToString(t \div DayMs)

\* mutant: push instead of unshift
Unshift_Push(list, p) == Append(list, p)

\* this.posts.unshift(newPost)
Unshift(list, p) == <<p>> \o list

\* this.posts.filter(post => post.id !== postId)
FilterOut(list, postId) == SelectSeq(list, LAMBDA p : Prop(p, "id") # postId)

\* the newPost object of createPost; content.substring needs a string
NewPost(title, content, tags, t) ==
    [id |-> Num(t),
     title |-> title,
     content |-> content,
     author |-> mockUser.name,
     date |-> Str(DateOf(t)),
     tags |-> IF tags = Undefined THEN EmptyArray ELSE tags,
     excerpt |-> Str(substring(content.s, 100) \o "...")]

Resolved(v, in, list, s) ==
    [outcome |-> "resolved", value |-> v, isLoggedIn |-> in, posts |-> list, storage |-> s]

\* the callback threw: resolve is never called and the promise stays pending
Threw(in, list, s) ==
    [outcome |-> "threw", value |-> [success |-> Undefined],
     isLoggedIn |-> in, posts |-> list, storage |-> s]

NotAuthenticated == [success |-> FALSE, message |-> "Not authenticated"]

\* the setTimeout callback of login(username, password)
LoginCallback(args, in, list, s, t) ==
    IF CredentialsMatch(args[1], args[2])
    THEN Resolved([success |-> TRUE, token |-> "demo_token_" \o ToString(t),
                   user |-> mockUser],
                  TRUE, list,
                  setItem(setItem(s, "demo_logged_in", Str("true")),
                          "demo_user", JsonText(StringifyObject(mockUser))))
    ELSE Resolved([success |-> FALSE,
                   message |-> "Invalid credentials. Try admin/admin123"],
                  in, list, s)

\* the setTimeout callback of logout()
LogoutCallback(args, in, list, s, t) ==
    Resolved([success |-> TRUE], FALSE, list,
             removeItem(removeItem(s, "demo_logged_in"), "demo_user"))

\* the setTimeout callback of getPosts()
GetPostsCallback(args, in, list, s, t) ==
    Resolved([success |-> TRUE, posts |-> list], in, list, s)

\* the setTimeout callback of createPost(title, content, tags = [])
CreatePostCallback(args, in, list, s, t) ==
    IF ~in THEN Resolved(NotAuthenticated, in, list, s)
    ELSE IF args[2].t # "string" THEN Threw(in, list, s)
    ELSE LET newPost == NewPost(args[1], args[2], args[3], t)
             after == Unshift(list, newPost)
         IN  Resolved([success |-> TRUE, post |-> newPost,
                       message |-> "Post created successfully (demo mode)"],
                      in, after, savePostsToStorage(s, after))

\* mutant: deletePost without its authentication check
DeletePostCallback_NoCheck(args, in, list, s, t) ==
    LET after == FilterOut(list, args[1])
    IN  Resolved([success |-> TRUE, message |-> "Post deleted successfully (demo mode)"],
                 in, after, savePostsToStorage(s, after))

\* the setTimeout callback of deletePost(postId)
DeletePostCallback(args, in, list, s, t) ==
    IF ~in THEN Resolved(NotAuthenticated, in, list, s)
    ELSE LET after == FilterOut(list, args[1])
         IN  Resolved([success |-> TRUE,
                       message |-> "Post deleted successfully (demo mode)"],
                      in, after, savePostsToStorage(s, after))

Callback(op, args, in, list, s, t) ==
    CASE op = "login" -> LoginCallback(args, in, list, s, t)
      [] op = "logout" -> LogoutCallback(args, in, list, s, t)
      [] op = "getPosts" -> GetPostsCallback(args, in, list, s, t)
      [] op = "createPost" -> CreatePostCallback(args, in, list, s, t)
      [] op = "deletePost" -> DeletePostCallback(args, in, list, s, t)

\* getCurrentUser()
getCurrentUser(in, s) == IF in THEN ParseItem(getItem(s, "demo_user")) ELSE Null

\* isAuthenticated()
isAuthenticated(in) == in

(***************************************************************************)
(* A page holding window.demoAPI                                           *)
(***************************************************************************)
LoginInputs == {<<Str("admin"), Str("admin123")>>, <<Str("admin"), Str("admin")>>}

CreateInputs ==
    {<<Str("Title"), Str("Body"), Undefined>>,
     <<Undefined, mockPosts[1].content, Arr(<<"x">>)>>,
     <<Str("Title"), Undefined, Undefined>>}

\* identifiers asked to be deleted: the first and the last of the list, one of no post, and the
\* text of an identifier (the controller's templates pass identifiers as text)
DeleteInputs(list) ==
    {<<Prop(list[i], "id")>> : i \in {1, Len(list)} \cap DOMAIN list}
        \cup {<<Num(0)>>, <<Str("1")>>}

NoCall == [op |-> "none"]

\* storage a page can start with: none, or the one a logged-in session left
LoggedInStorage ==
    [DemoConstructor(EmptyStorage).storage EXCEPT
        !["demo_logged_in"] = Str("true"),
        !["demo_user"] = JsonText(StringifyObject(mockUser))]

\* the page's script ran: window.demoAPI = new DemoAPI()
DemoInit ==
    /\ \E s \in {EmptyStorage, LoggedInStorage} :
          /\ storage = DemoConstructor(s).storage
          /\ isLoggedIn = DemoConstructor(s).isLoggedIn
          /\ dposts = DemoConstructor(s).posts
    /\ timers = <<>>
    /\ dlast = NoCall
    /\ ncalls = 0

\* a call of an operation: new Promise(resolve => setTimeout(..., delay))
DemoCall(limit, op, args) ==
    /\ ncalls < limit
    /\ timers' = Append(timers, [op |-> op, args |-> args, fireAt |-> now + Delay(op)])
    /\ ncalls' = ncalls + 1
    /\ UNCHANGED <<now, storage, isLoggedIn, dposts, dlast, srvVars, appVars, input, configVars, clientVars, ctlVars>>

\* the timer the event loop runs next: the earliest due, the first set among equals
NextTimer(i) ==
    /\ i \in 1..Len(timers)
    /\ timers[i].fireAt <= now
    /\ \A j \in 1..Len(timers) :
          \/ timers[j].fireAt > timers[i].fireAt
          \/ timers[j].fireAt = timers[i].fireAt /\ j >= i

Remove(seq, i) == SubSeq(seq, 1, i - 1) \o SubSeq(seq, i + 1, Len(seq))

\* a setTimeout callback runs
DemoFire(i) ==
    /\ NextTimer(i)
    /\ LET c == timers[i]
           r == Callback(c.op, c.args, isLoggedIn, dposts, storage, now)
       IN  /\ isLoggedIn' = r.isLoggedIn
           /\ dposts' = r.posts
           /\ storage' = r.storage
           /\ dlast' = [op |-> c.op, args |-> c.args, outcome |-> r.outcome,
                        value |-> r.value, loggedIn |-> isLoggedIn, before |-> dposts]
    /\ timers' = Remove(timers, i)
    /\ UNCHANGED <<now, ncalls, srvVars, appVars, input, configVars, clientVars, ctlVars>>

\* time passes, up to the time a timer is due
DemoTick ==
    /\ \E i \in 1..Len(timers) :
          /\ timers[i].fireAt > now
          /\ now' = timers[i].fireAt
    /\ UNCHANGED <<storage, demoVars, srvVars, appVars, input, configVars, clientVars, ctlVars>>

\* the page is loaded again: its timers are gone, a new DemoAPI reads the storage
DemoReload ==
    /\ dlast.op # "reload"
    /\ isLoggedIn' = DemoConstructor(storage).isLoggedIn
    /\ dposts' = DemoConstructor(storage).posts
    /\ storage' = DemoConstructor(storage).storage
    /\ timers' = <<>>
    /\ dlast' = [op |-> "reload", loggedIn |-> isLoggedIn, before |-> dposts]
    /\ UNCHANGED <<now, ncalls, srvVars, appVars, input, configVars, clientVars, ctlVars>>

(***************************************************************************)
(* The application controller                                              *)
(***************************************************************************)
Hostnames == {"localhost", "127.0.0.1", "cyberops.github.io", "blog.netlify.app"}

\* s.includes(sub)
includes(s, sub) ==
    \E i \in 1..(Len(s) - Len(sub) + 1) : SubSeq(s, i, i + Len(sub) - 1) = sub

isStaticDeployment(h) ==
    ~(includes(h, "localhost") \/ includes(h, "127.0.0.1") \/ h = "")

\* data.k is true
HasTrue(data, k) == k \in DOMAIN data /\ data[k] = TRUE

\* config.js: the configuration of each environment
CONFIG ==
    [development |-> [API_BASE_URL |-> "http://127.0.0.1:9090/api",
                      APP_NAME |-> "Digital Garden Blog (Dev)",
                      DEBUG |-> TRUE],
     production |-> [API_BASE_URL |-> "https://your-backend-api.com/api",
                     APP_NAME |-> "Digital Garden Blog",
                     DEBUG |-> FALSE],
     netlify |-> [API_BASE_URL |-> "/api",
                  APP_NAME |-> "Digital Garden Blog (Demo)",
                  DEBUG |-> FALSE,
                  DEMO_MODE |-> TRUE]]

\* getEnvironment() on a page of host h
getEnvironment(h) ==
    IF h = "localhost" \/ h = "127.0.0.1" THEN "development"
    ELSE IF includes(h, "netlify.app") \/ includes(h, "netlify.com") THEN "netlify"
    ELSE "production"

\* getConfig() on a page of host h
getConfig(h) == CONFIG[getEnvironment(h)]

\* the value of window.demoAPI once demo-mode.js has run on a page of host h
DemoInstance == [t |-> "object", class |-> "DemoAPI"]
DemoGlobal(h) == IF isStaticDeployment(h) THEN DemoInstance ELSE Undefined

ApiOrigin == "http://127.0.0.1:9090"
PageOrigin == ""

Fetch(kind, m, origin, path, body) ==
    [kind |-> kind, method |-> m, origin |-> origin, path |-> path, body |-> body]

\* fetch('/api/auth/verify', {method: 'GET', ...}): a URL of the page's origin
VerifyFetch == Fetch("verify", "GET", PageOrigin, "/api/auth/verify", "")

\* fetch('http://127.0.0.1:9090/api/posts')
LoadPostsFetch == Fetch("loadPosts", "GET", ApiOrigin, "/api/posts", "")

CredentialObject(u, p) == Obj([k \in CredentialKeys |-> IF k = "username" THEN u ELSE p])

\* fetch('http://127.0.0.1:9090/api/auth/login', {method: 'POST', body: JSON.stringify(...)})
LoginFetch(u, p) ==
    Fetch("login", "POST", ApiOrigin, "/api/auth/login", JSONStringify(CredentialObject(u, p)))

\* what the server writes for a request, whole
ServerAnswer(m, u, body, t) ==
    IF ~IsPreflight(m) /\ IsLoginRoute(m, u) THEN LoginResponse(body)
    ELSE ImmediateResponse(m, u, t)

HtmlBody == [t |-> "html"]
NetworkError == [kind |-> "error"]
Arrived(res) == [kind |-> "response", res |-> res]

\* how a fetch can settle: the server answers it; it fails (the server is down or
\* the browser blocks it); and a URL of the page's origin is answered by whatever
\* serves the page, which has no such file
Outcomes(f, t) ==
    {NetworkError, Arrived(ServerAnswer(f.method, f.path, f.body, t))}
        \cup (IF f.origin = PageOrigin THEN {Arrived(Response(404, HtmlBody))} ELSE {})

\* response.ok
Ok(o) == o.res.status \in 200..299

\* response.json() gives a value
HasJson(o) == o.kind = "response" /\ o.res.body.t = "json"

\* the .then chain of verifyAuthToken: the user it leaves and the storage
VerifiedUser(o) ==
    HasJson(o) /\ Ok(o) /\ HasTrue(o.res.body.v, "success") /\ "user" \in DOMAIN o.res.body.v

\* mutant: loadPosts never assigns the list of the response
LoadedPosts_Empty(o) == <<>>

\* mutant: a failed load leaves a post in the list
LoadedPosts_Stale(o) ==
    IF HasJson(o) /\ HasTrue(o.res.body.v, "success") /\ "posts" \in DOMAIN o.res.body.v
    THEN o.res.body.v.posts
    ELSE <<[title |-> "Stale", content |-> "Stale"]>>

\* the .then chain of loadPosts: the new posts
LoadedPosts(o) ==
    IF HasJson(o) /\ HasTrue(o.res.body.v, "success") /\ "posts" \in DOMAIN o.res.body.v
    THEN o.res.body.v.posts
    ELSE <<>>

\* login(): data.success after await response.json()
LoginSucceeded(o) == HasJson(o) /\ HasTrue(o.res.body.v, "success")

\* localStorage.getItem('theme') || 'light'
SavedTheme(s) == IF Truthy(getItem(s, "theme")) THEN getItem(s, "theme") ELSE Str("light")

\* html.getAttribute('data-theme') || 'light', then the other one
ToggledTheme(attr) ==
    LET current == IF Truthy(attr) THEN attr ELSE Str("light")
    IN  IF current = Str("dark") THEN Str("light") ELSE Str("dark")

\* mutant: the new theme is not stored
StoreTheme_Skip(s, theme) == s

\* localStorage.setItem('theme', newTheme)
StoreTheme(s, theme) == setItem(s, "theme", theme)

\* the page's scripts run: window.demoAPI = new DemoAPI() on a static host,
\* currentUser = null, posts = []
PageScripts(h, s) ==
    IF isStaticDeployment(h) THEN DemoConstructor(s)
    ELSE [isLoggedIn |-> FALSE, posts |-> <<>>, storage |-> s]

NoDemo ==
    /\ isLoggedIn = FALSE
    /\ dposts = <<>>
    /\ timers = <<>>
    /\ dlast = NoCall
    /\ ncalls = 0

\* fetch: the request, the time it was sent, and whether the response of a
\* loadPosts sent after it has arrived before its own
Sent(f, t) == [req |-> f, at |-> t, late |-> FALSE]

\* the editor's fields as createPost and updatePost read them
EmptyForm == [title |-> "", content |-> ""]
FormInputs == {[title |-> "My post", content |-> "Text"], [title |-> "My post", content |-> ""]}

\* JSON.stringify({ title, content, category, tags })
PostText(f) ==
    "{\"title\":\"" \o f.title \o "\",\"content\":\"" \o f.content
        \o "\",\"category\":\"general\",\"tags\":[]}"

\* fetch('/api/posts', {method: 'POST', ...}): a URL of the page's origin
CreatePostFetch(f) == Fetch("createPost", "POST", PageOrigin, "/api/posts", PostText(f))

\* fetch(`/api/posts/${postId}`, {method: 'PUT', ...})
UpdatePostFetch(id, f) ==
    Fetch("updatePost", "PUT", PageOrigin, "/api/posts/" \o id, PostText(f))

\* fetch(`/api/posts/${postId}`, {method: 'DELETE', ...})
DeletePostFetch(id) == Fetch("deletePost", "DELETE", PageOrigin, "/api/posts/" \o id, "")

EditKinds == {"createPost", "updatePost", "deletePost"}

\* posts as the controller's templates read them: _id, title, content
OtherPosts ==
    <<("_id" :> "p1") @@ [title |-> "First", content |-> "Text one"],
      ("_id" :> "p2") @@ [title |-> "Second", content |-> "Text two"]>>

\* identifiers the rendered buttons pass: '${post._id}' of every post of the list,
\* which is the text undefined for a post without _id
RenderedIds(list) ==
    {IF "_id" \in DOMAIN list[k] THEN list[k]["_id"] ELSE "undefined" : k \in 1..Len(list)}

\* identifiers editPost is called with: those, and one of no post
EditIds(list) == RenderedIds(list) \cup {"p9"}

\* what a backend other than the server of api.js can answer at the same addresses:
\* the data.success branch, the failure branch and the parse error of each handler
OtherOutcomes(f) ==
    IF f.kind = "loadPosts"
    THEN {Arrived(Response(200, JsonBody([success |-> TRUE, posts |-> OtherPosts]))),
          Arrived(Response(500, JsonBody([success |-> FALSE, message |-> "Server error"]))),
          Arrived(Response(502, HtmlBody))}
    ELSE IF f.kind \in EditKinds
    THEN {Arrived(Response(200, JsonBody([success |-> TRUE]))),
          Arrived(Response(404, JsonBody([success |-> FALSE, message |-> "Post not found"])))}
    ELSE {}

\* mutant: editPost takes the first post, whatever its _id
Find_First(list, id) == IF Len(list) > 0 THEN <<list[1]>> ELSE <<>>

\* posts.find(p => p._id === postId)
HasId(p, id) == "_id" \in DOMAIN p /\ p["_id"] = id
Find(list, id) ==
    IF \E k \in 1..Len(list) : HasId(list[k], id)
    THEN <<list[CHOOSE k \in 1..Len(list) :
                   HasId(list[k], id) /\ \A j \in 1..(k - 1) : ~HasId(list[j], id)]>>
    ELSE <<>>

\* renderPosts(): the empty state or one card per post
Render(list) == IF Len(list) = 0 THEN "empty-state" ELSE "post-cards"

\* data.success of createPost, updatePost and deletePost; response.json() of a body
\* that is not JSON throws, as does a fetch that fails
EditResult(o) ==
    IF ~HasJson(o) THEN "error"
    ELSE IF HasTrue(o.res.body.v, "success") THEN "success"
    ELSE "failed"

NoLoad == [out |-> [kind |-> "none"], late |-> FALSE]
NoEdit == [op |-> "none", result |-> "none"]

NoApp ==
    /\ hostname = ""
    /\ pc = "none"
    /\ currentUser = Null
    /\ posts = <<>>
    /\ dataTheme = Null
    /\ fetches = <<>>
    /\ restore = "none"
    /\ themeBefore = Null
    /\ lastLoad = NoLoad
    /\ postsGrid = "html"
    /\ editingPostId = Undefined
    /\ submitBtn = "html"
    /\ form = EmptyForm
    /\ lastEdit = NoEdit
    /\ APP_CONFIG = Undefined
    /\ demoAPI = Undefined

\* storage a page can start with: none, or a dark theme chosen earlier
InitialStorages == {EmptyStorage, StoreTheme(EmptyStorage, Str("dark"))}

\* the page was opened and its scripts ran; the html element has no data-theme yet,
\* #postsGrid and the editor are as the HTML has them, window.editingPostId is not set
AppInit ==
    /\ hostname \in Hostnames
    /\ \E s \in InitialStorages :
          /\ storage = PageScripts(hostname, s).storage
          /\ isLoggedIn = PageScripts(hostname, s).isLoggedIn
          /\ dposts = PageScripts(hostname, s).posts
    /\ timers = <<>> /\ dlast = NoCall /\ ncalls = 0
    /\ pc = "loading"
    /\ currentUser = Null
    /\ posts = <<>>
    /\ dataTheme = Null
    /\ fetches = <<>>
    /\ restore = "none"
    /\ themeBefore = Null
    /\ token = APIClientConstructor(storage)
    /\ tokenCalls = <<>>
    /\ lastLoad = NoLoad
    /\ postsGrid = "html"
    /\ editingPostId = Undefined
    /\ submitBtn = "html"
    /\ form = EmptyForm
    /\ lastEdit = NoEdit
    /\ APP_CONFIG = getConfig(hostname)
    /\ demoAPI = DemoGlobal(hostname)

\* initializeApp(), run 100 ms after DOMContentLoaded: verifyAuthToken(token) or
\* loadPosts(), then bindEvents() (which applies the saved theme) and initializeUI()
InitializeApp ==
    /\ pc = "loading"
    /\ pc' = "ready"
    /\ fetches' = IF Truthy(getItem(storage, "authToken"))
                  THEN <<Sent(VerifyFetch, now)>> ELSE <<Sent(LoadPostsFetch, now)>>
    /\ dataTheme' = SavedTheme(storage)
    /\ UNCHANGED <<now, srvVars, storage, demoVars, hostname, currentUser, posts,
                   restore, themeBefore, input, configVars, clientVars, ctlVars>>

\* the click handler of #themeToggle
ToggleTheme ==
    /\ pc = "ready"
    /\ dataTheme' = ToggledTheme(dataTheme)
    /\ storage' = StoreTheme(storage, ToggledTheme(dataTheme))
    /\ themeBefore' = Null
    /\ UNCHANGED <<now, srvVars, demoVars, hostname, pc, currentUser, posts, fetches,
                   restore, input, configVars, clientVars, ctlVars>>

\* login(username, password) up to its first await
AppLogin(u, p) ==
    /\ pc = "ready"
    /\ Len(fetches) < MaxFetches
    /\ fetches' = Append(fetches, Sent(LoginFetch(u, p), now))
    /\ UNCHANGED <<now, srvVars, storage, demoVars, hostname, pc, currentUser, posts,
                   dataTheme, restore, themeBefore, input, configVars, clientVars, ctlVars>>

\* logout()
AppLogout ==
    /\ pc = "ready"
    /\ Len(fetches) < MaxFetches
    /\ currentUser' = Null
    /\ storage' = removeItem(storage, "authToken")
    /\ fetches' = Append(fetches, Sent(LoadPostsFetch, now))
    /\ UNCHANGED <<now, srvVars, demoVars, hostname, pc, posts, dataTheme, restore,
                   themeBefore, input, configVars, clientVars, ctlVars>>

\* showSection('posts'): loadPosts()
AppShowPosts ==
    /\ pc = "ready"
    /\ Len(fetches) < MaxFetches
    /\ fetches' = Append(fetches, Sent(LoadPostsFetch, now))
    /\ UNCHANGED <<now, srvVars, storage, demoVars, hostname, pc, currentUser, posts,
                   dataTheme, restore, themeBefore, input, configVars, clientVars, ctlVars>>

\* the user fills the title and content fields
TypeForm(f) ==
    /\ pc = "ready"
    /\ form # f
    /\ form' = f
    /\ UNCHANGED <<now, srvVars, storage, demoVars, appVars, input, configVars, clientVars,
                   lastLoad, postsGrid, editingPostId, submitBtn, lastEdit>>

\* editPost(postId): nothing when no loaded post has the id; showSection('create')
EditPost(id) ==
    /\ pc = "ready"
    /\ IF Find(posts, id) = <<>>
       THEN UNCHANGED <<form, editingPostId, submitBtn>>
       ELSE /\ form' = [title |-> Find(posts, id)[1].title,
                        content |-> Find(posts, id)[1].content]
            /\ editingPostId' = Str(id)
            /\ submitBtn' = "Update Post"
    /\ UNCHANGED <<now, srvVars, storage, demoVars, appVars, input, configVars, clientVars,
                   lastLoad, postsGrid, lastEdit>>

\* createPost() and updatePost(postId) up to the first await: the fields are
\* checked, then the request is sent
SendEdit(op, f) ==
    /\ pc = "ready"
    /\ Len(fetches) < MaxFetches
    /\ IF form.title = "" \/ form.content = ""
       THEN /\ lastEdit' = [op |-> op, result |-> "invalid"]
            /\ UNCHANGED fetches
       ELSE /\ fetches' = Append(fetches, Sent(f, now))
            /\ UNCHANGED lastEdit
    /\ UNCHANGED <<now, srvVars, storage, demoVars, hostname, pc, currentUser, posts,
                   dataTheme, restore, themeBefore, input, configVars, clientVars,
                   lastLoad, postsGrid, editingPostId, submitBtn, form>>

CreatePost == SendEdit("createPost", CreatePostFetch(form))

UpdatePost(id) == SendEdit("updatePost", UpdatePostFetch(id, form))

\* the submit handler of #createPostForm
SubmitForm ==
    IF Truthy(editingPostId) THEN UpdatePost(editingPostId.s) ELSE CreatePost

\* deletePost(postId), confirmed by the user, up to the first await
DeletePost(id) ==
    /\ pc = "ready"
    /\ Len(fetches) < MaxFetches
    /\ fetches' = Append(fetches, Sent(DeletePostFetch(id), now))
    /\ UNCHANGED <<now, srvVars, storage, demoVars, hostname, pc, currentUser, posts,
                   dataTheme, restore, themeBefore, input, configVars, clientVars, ctlVars>>

\* the fetch of verifyAuthToken settles: .then, .then, .catch; each ends in loadPosts()
VerifySettles(i, o) ==
    /\ fetches[i].req.kind = "verify"
    /\ currentUser' = IF VerifiedUser(o) THEN o.res.body.v.user ELSE currentUser
    /\ storage' = IF VerifiedUser(o) THEN storage ELSE removeItem(storage, "authToken")
    /\ fetches' = Append(Remove(fetches, i), Sent(LoadPostsFetch, now))
    /\ restore' = IF restore # "pending" THEN restore
                  ELSE IF currentUser' # Null /\ getItem(storage', "authToken") # Null
                       THEN "kept"
                  ELSE IF o = NetworkError THEN "lostUnanswered"
                  ELSE IF o.res.status = 404 THEN "lostNotFound"
                  ELSE "lostAnswered"
    /\ UNCHANGED <<posts, ctlVars>>

\* the loadPosts requests sent before request i are overtaken by its response
Overtake(fs, i) ==
    [j \in 1..Len(fs) |->
        IF j < i /\ fs[j].req.kind = "loadPosts" THEN [fs[j] EXCEPT !.late = TRUE]
        ELSE fs[j]]

\* the fetch of loadPosts settles: posts is assigned and rendered
LoadPostsSettles(i, o) ==
    /\ fetches[i].req.kind = "loadPosts"
    /\ posts' = LoadedPosts(o)
    /\ postsGrid' = Render(LoadedPosts(o))
    /\ lastLoad' = [out |-> o, late |-> fetches[i].late]
    /\ fetches' = Remove(Overtake(fetches, i), i)
    /\ UNCHANGED <<currentUser, storage, restore, editingPostId, submitBtn, form, lastEdit>>

\* the fetch of login settles: the rest of login()
LoginSettles(i, o) ==
    /\ fetches[i].req.kind = "login"
    /\ IF LoginSucceeded(o)
       THEN /\ currentUser' = o.res.body.v.user
            /\ storage' = setItem(storage, "authToken", Str(o.res.body.v.token))
            /\ fetches' = Append(Remove(fetches, i), Sent(LoadPostsFetch, now))
       ELSE /\ fetches' = Remove(fetches, i)
            /\ UNCHANGED <<currentUser, storage>>
    /\ UNCHANGED <<posts, restore, ctlVars>>

\* clearEditor(), showSection('posts') and loadPosts() after a create or an update
\* that succeeded; loadPosts() after a delete that succeeded
AfterEdit(kind) ==
    IF kind = "deletePost" THEN <<Sent(LoadPostsFetch, now)>>
    ELSE <<Sent(LoadPostsFetch, now), Sent(LoadPostsFetch, now)>>

\* the fetch of createPost, updatePost or deletePost settles: the rest of the function
EditSettles(i, o) ==
    /\ fetches[i].req.kind \in EditKinds
    /\ lastEdit' = [op |-> fetches[i].req.kind, result |-> EditResult(o)]
    /\ IF EditResult(o) = "success"
       THEN /\ fetches' = Remove(fetches, i) \o AfterEdit(fetches[i].req.kind)
            /\ IF fetches[i].req.kind = "deletePost"
               THEN UNCHANGED <<form, editingPostId, submitBtn>>
               ELSE /\ form' = EmptyForm
                    /\ editingPostId' = Null
                    /\ submitBtn' = "Publish Post"
       ELSE /\ fetches' = Remove(fetches, i)
            /\ UNCHANGED <<form, editingPostId, submitBtn>>
    /\ UNCHANGED <<currentUser, storage, posts, restore, lastLoad, postsGrid>>

Settles(i, o) ==
    /\ pc = "ready"
    /\ \/ VerifySettles(i, o)
       \/ LoadPostsSettles(i, o)
       \/ LoginSettles(i, o)
       \/ EditSettles(i, o)
    /\ UNCHANGED <<now, srvVars, demoVars, hostname, pc, dataTheme, themeBefore, input,
                   configVars, clientVars>>

\* a fetch settles in a deployment with the server of api.js, which answered at
\* some time since the request was sent
FetchSettles(i) ==
    \E t \in fetches[i].at..now : \E o \in Outcomes(fetches[i].req, t) : Settles(i, o)

\* a fetch settles with the answer of another backend
FetchSettlesOther(i) ==
    \E o \in OtherOutcomes(fetches[i].req) : Settles(i, o)

\* a millisecond passes on the page
AppTick ==
    /\ pc = "ready"
    /\ now < StartTime + AppMaxTicks
    /\ now' = now + 1
    /\ UNCHANGED <<srvVars, pageVars>>

\* the page is loaded again: the scripts run anew, what was in flight is dropped
AppReload ==
    /\ pc = "ready"
    /\ storage' = PageScripts(hostname, storage).storage
    /\ isLoggedIn' = PageScripts(hostname, storage).isLoggedIn
    /\ dposts' = PageScripts(hostname, storage).posts
    /\ pc' = "loading"
    /\ currentUser' = Null
    /\ posts' = <<>>
    /\ dataTheme' = Null
    /\ fetches' = <<>>
    /\ restore' = IF currentUser # Null /\ getItem(storage, "authToken") # Null
                  THEN "pending" ELSE "none"
    /\ themeBefore' = dataTheme
    /\ token' = APIClientConstructor(storage)
    /\ tokenCalls' = <<>>
    /\ lastLoad' = NoLoad
    /\ postsGrid' = "html"
    /\ editingPostId' = Undefined
    /\ submitBtn' = "html"
    /\ form' = EmptyForm
    /\ lastEdit' = NoEdit
    /\ APP_CONFIG' = getConfig(hostname)
    /\ demoAPI' = DemoGlobal(hostname)
    /\ UNCHANGED <<now, srvVars, timers, dlast, ncalls, hostname, input>>

(***************************************************************************)
(* Specifications                                                          *)
(***************************************************************************)
InitServer ==
    /\ now = StartTime
    /\ SrvInit
    /\ storage = EmptyStorage
    /\ NoDemo
    /\ NoApp
    /\ NoClient
    /\ input = <<>>

NextServer ==
    \/ \E m \in Methods, u \in Urls :
          \E c \in RequestChunks(m, u) : SrvRequest(m, u, c)
    \/ \E p \in srvPending : SrvData(p)
    \/ \E p \in srvPending : SrvEnd(p)
    \/ SrvTick

SpecServer == InitServer /\ [][NextServer]_vars

InitDemo ==
    /\ now = StartTime
    /\ SrvInit
    /\ DemoInit
    /\ NoApp
    /\ NoClient
    /\ input = <<>>

NextDemoWithin(limit) ==
    \/ \E a \in LoginInputs : DemoCall(limit, "login", a)
    \/ DemoCall(limit, "logout", <<>>)
    \/ DemoCall(limit, "getPosts", <<>>)
    \/ \E a \in CreateInputs : DemoCall(limit, "createPost", a)
    \/ \E a \in DeleteInputs(dposts) : DemoCall(limit, "deletePost", a)
    \/ \E i \in 1..Len(timers) : DemoFire(i)
    \/ DemoTick
    \/ DemoReload

NextDemo == NextDemoWithin(MaxCalls)

SpecDemo == InitDemo /\ [][NextDemo]_vars

\* the same page, followed for one call more
NextDemoDeep == NextDemoWithin(MaxCalls + 1)

SpecDemoDeep == InitDemo /\ [][NextDemoDeep]_vars

InitApp ==
    /\ now = StartTime
    /\ SrvInit
    /\ AppInit
    /\ input = <<>>

NextApp ==
    \/ InitializeApp
    \/ ToggleTheme
    \/ \E a \in LoginInputs : AppLogin(a[1], a[2])
    \/ AppLogout
    \/ AppShowPosts
    \/ \E i \in 1..Len(fetches) : FetchSettles(i)
    \/ AppReload

SpecApp == InitApp /\ [][NextApp]_vars

\* one page holding window.apiClient
InitClient ==
    /\ now = StartTime
    /\ SrvInit
    /\ ClientInit
    /\ NoDemo
    /\ NoApp
    /\ input = <<>>

NextClient ==
    \/ \E tok \in TokenInputs : SetToken(tok)
    \/ ClearToken
    \/ ClientReload

SpecClient == InitClient /\ [][NextClient]_vars

\* a page served locally, next to the server of api.js
InitLocal == InitApp /\ hostname = "localhost"

\* the controller and window.apiClient on one page
NextAppClient ==
    \/ InitializeApp
    \/ \E a \in LoginInputs : AppLogin(a[1], a[2])
    \/ AppLogout
    \/ \E i \in 1..Len(fetches) : FetchSettles(i)
    \/ AppReload
    \/ \E tok \in TokenInputs : SetTokenWithin(MaxAppTokenCalls, tok)
    \/ ClearTokenWithin(MaxAppTokenCalls)

SpecAppClient == InitLocal /\ [][NextAppClient]_vars

\* the controller loading posts while time passes, with any backend
NextLoad ==
    \/ InitializeApp
    \/ AppLogin(Str("admin"), Str("admin123"))
    \/ AppShowPosts
    \/ \E i \in 1..Len(fetches) : FetchSettles(i)
    \/ \E i \in 1..Len(fetches) : FetchSettlesOther(i)
    \/ AppTick
    \/ AppReload

SpecLoad == InitLocal /\ [][NextLoad]_vars

\* the editor in a deployment with the server of api.js
NextEditor ==
    \/ InitializeApp
    \/ \E f \in FormInputs : TypeForm(f)
    \/ \E id \in EditIds(posts) : EditPost(id)
    \/ SubmitForm
    \/ \E id \in RenderedIds(posts) : UpdatePost(id)
    \/ \E id \in RenderedIds(posts) : DeletePost(id)
    \/ AppShowPosts
    \/ \E i \in 1..Len(fetches) : FetchSettles(i)
    \/ AppTick

SpecEditor == InitLocal /\ [][NextEditor]_vars

\* the editor with a backend that has the routes the controller calls
NextEditorOther ==
    \/ InitializeApp
    \/ \E f \in FormInputs : TypeForm(f)
    \/ \E id \in EditIds(posts) : EditPost(id)
    \/ SubmitForm
    \/ \E id \in RenderedIds(posts) : DeletePost(id)
    \/ \E i \in 1..Len(fetches) : FetchSettlesOther(i)
    \/ AppReload

SpecEditorOther == InitLocal /\ [][NextEditorOther]_vars

\* one pair of credentials, tried on the server and on the Demo API
LoginValues == {Str(s) : s \in CredentialStrings} \cup {Undefined}

LoginChunks(u, p) == <<JSONStringify(CredentialObject(u, p))>>

InitLogin ==
    /\ now = StartTime
    /\ SrvInit
    /\ DemoInit
    /\ NoApp
    /\ NoClient
    /\ input \in LoginValues \X LoginValues

NextLogin ==
    \/ SrvRequest("POST", "/api/auth/login", LoginChunks(input[1], input[2]))
    \/ \E p \in srvPending : SrvData(p)
    \/ \E p \in srvPending : SrvEnd(p)
    \/ DemoCall(MaxCalls, "login", input)
    \/ DemoTick
    \/ \E i \in 1..Len(timers) : DemoFire(i)

SpecLogin == InitLogin /\ [][NextLogin]_vars

\* hostnames a page can be served under: a name of the machine itself, or up to
\* MaxLabels labels in front of a domain; "" is a page opened from a file
Labels == {"blog", "cyberops", "localhost"}
Domains == {"localhost", "github.io", "netlify.app", "netlify.com", "your-backend-api.com"}

RECURSIVE Subdomains(_)
Subdomains(n) ==
    IF n = 0 THEN {""}
    ELSE Subdomains(n - 1) \cup {l \o "." \o p : l \in Labels, p \in Subdomains(n - 1)}

ConfigHostnames ==
    {"", "127.0.0.1"} \cup {p \o d : p \in Subdomains(MaxLabels), d \in Domains}

\* config.js runs: window.APP_CONFIG = getConfig()
RunConfigScript ==
    /\ pc \in {"opened", "demo-mode.js"}
    /\ APP_CONFIG' = getConfig(hostname)
    /\ pc' = IF pc = "opened" THEN "config.js" ELSE "loading"
    /\ UNCHANGED <<now, srvVars, storage, demoVars, hostname, currentUser, posts,
                   dataTheme, fetches, restore, themeBefore, input, demoAPI,
                   clientVars, ctlVars>>

\* demo-mode.js runs: window.demoAPI = new DemoAPI() on a static host
RunDemoScript ==
    /\ pc \in {"opened", "config.js"}
    /\ demoAPI' = DemoGlobal(hostname)
    /\ storage' = PageScripts(hostname, storage).storage
    /\ isLoggedIn' = PageScripts(hostname, storage).isLoggedIn
    /\ dposts' = PageScripts(hostname, storage).posts
    /\ pc' = IF pc = "opened" THEN "demo-mode.js" ELSE "loading"
    /\ UNCHANGED <<now, srvVars, timers, dlast, ncalls, hostname, currentUser, posts,
                   dataTheme, fetches, restore, themeBefore, input, APP_CONFIG,
                   clientVars, ctlVars>>

\* a page opened under any hostname, before its scripts have run
InitConfig ==
    /\ now = StartTime
    /\ SrvInit
    /\ storage = EmptyStorage
    /\ NoDemo
    /\ NoClient
    /\ input = <<>>
    /\ hostname \in ConfigHostnames
    /\ pc = "opened"
    /\ currentUser = Null
    /\ posts = <<>>
    /\ dataTheme = Null
    /\ fetches = <<>>
    /\ restore = "none"
    /\ themeBefore = Null
    /\ lastLoad = NoLoad
    /\ postsGrid = "html"
    /\ editingPostId = Undefined
    /\ submitBtn = "html"
    /\ form = EmptyForm
    /\ lastEdit = NoEdit
    /\ APP_CONFIG = Undefined
    /\ demoAPI = Undefined

NextConfig ==
    \/ RunConfigScript
    \/ RunDemoScript

SpecConfig == InitConfig /\ [][NextConfig]_vars

(***************************************************************************)
(* Claims about the server                                                 *)
(***************************************************************************)
ServerAnswered == srvLast.req.method # "none"
LoginAnswered == ServerAnswered /\ IsLoginRoute(srvLast.req.method, srvLast.req.url)

WithoutDate(p) == [k \in DOMAIN p \ {"date"} |-> p[k]]

\* C2 as claimed: every GET /api/posts response is success=true with exactly two
\* posts, and any two responses are equal in every field of every record.
C2_PostsResponsesAllEqual ==
    \A r1 \in srvPosts, r2 \in srvPosts :
        /\ r1.body.success = TRUE
        /\ Len(r1.body.posts) = 2
        /\ r1.body = r2.body

\* C2 amended: every GET /api/posts response is success=true with exactly two posts;
\* any two responses are equal in every field of every record except date, which is
\* the time of the response in the first record and that time less 86400000 ms in
\* the second.
C2_PostsResponsesEqualButDate ==
    \A r1 \in srvPosts, r2 \in srvPosts :
        /\ r1.body.success = TRUE
        /\ DOMAIN r1.body = {"success", "posts"}
        /\ Len(r1.body.posts) = 2
        /\ \A i \in 1..2 : WithoutDate(r1.body.posts[i]) = WithoutDate(r2.body.posts[i])
        /\ r1.body.posts[1].date = toISOString(r1.at)
        /\ r1.body.posts[2].date = toISOString(r1.at - DayMs)

\* C2 witness: the list was served at two different times
C2_Witness ==
    \E r1 \in srvPosts, r2 \in srvPosts : r1.at # r2.at /\ r1.body # r2.body

\* C6 as claimed: every request that is neither POST /api/auth/login nor
\* GET /api/posts is answered 200 with the service descriptor.
C6_UnmatchedGetDescriptor ==
    (ServerAnswered /\ ~IsLoginRoute(srvLast.req.method, srvLast.req.url)
                    /\ ~IsPostsRoute(srvLast.req.method, srvLast.req.url))
        => srvLast.res = Response(200, JsonBody(ServiceDescriptor))

\* C6 amended: every request whose method is not OPTIONS and that is neither
\* POST /api/auth/login nor GET /api/posts is answered 200 with the service
\* descriptor; every OPTIONS request, whatever its path, is answered 200 with an
\* empty body.
C6_UnmatchedButPreflightGetDescriptor ==
    ServerAnswered =>
        /\ (srvLast.req.method = "OPTIONS") => srvLast.res = Response(200, EmptyBody)
        /\ (/\ srvLast.req.method # "OPTIONS"
            /\ ~(srvLast.req.method = "POST" /\ srvLast.req.url = "/api/auth/login")
            /\ ~(srvLast.req.method = "GET" /\ srvLast.req.url = "/api/posts"))
              => srvLast.res = Response(200, JsonBody(ServiceDescriptor))

\* C6 witness: a DELETE of a post was answered with the descriptor
C6_Witness ==
    /\ ServerAnswered
    /\ srvLast.req.method = "DELETE" /\ srvLast.req.url = "/api/posts/1"
    /\ srvLast.res.body = JsonBody(ServiceDescriptor)

\* C7 as claimed: a login whose body is not well-formed JSON is answered 400 with
\* {success: false, message: 'Invalid JSON'}, and a well-formed body is never
\* answered with that message.
C7_InvalidJSONOnlyForMalformed ==
    LoginAnswered =>
        IF JSONParse(srvLast.req.body).ok
        THEN srvLast.res.body # JsonBody(InvalidJSON)
        ELSE srvLast.res = Response(400, JsonBody(InvalidJSON))

(***************************************************************************)
(* Claims about the Demo API                                               *)
(***************************************************************************)
SamePost(p, q) == \A k \in DOMAIN p \cup DOMAIN q : Prop(p, k) = Prop(q, k)

SameList(a, b) == Len(a) = Len(b) /\ \A i \in 1..Len(a) : SamePost(a[i], b[i])

\* the list a new DemoAPI would start with
StoredPosts == ParseItem(getItem(storage, "demo_posts"))

Ran(op) == dlast.op = op /\ dlast.loggedIn

C4_DeleteRemovesExactlyOne ==
    (Ran("deletePost") /\ dlast.outcome = "resolved") =>
        LET id == dlast.args[1]
            present == \E i \in 1..Len(dlast.before) : Prop(dlast.before[i], "id") = id
        IN  /\ Len(dposts) = Len(dlast.before) - (IF present THEN 1 ELSE 0)
            /\ dposts = SelectSeq(dlast.before, LAMBDA p : Prop(p, "id") # id)
            /\ getItem(storage, "demo_posts") # Null
            /\ SameList(StoredPosts, dposts)

\* C8 as claimed: every Demo API call resolves with a descriptor that has a boolean
\* success field; stated of the calls whose timer callback has run.
C8_EveryCallResolves ==
    (dlast.op \in {"login", "logout", "getPosts", "createPost", "deletePost"}) =>
        /\ dlast.outcome = "resolved"
        /\ dlast.value.success \in BOOLEAN

\* C13: the stored post list is the in-memory list and the stored login flag is
\* 'true' exactly when isLoggedIn is true, so a new DemoAPI built from the storage
\* has the same list, the same isAuthenticated() and the same getCurrentUser().
C13_StorageMirrorsInstance ==
    /\ getItem(storage, "demo_posts") # Null
    /\ SameList(StoredPosts, dposts)
    /\ (getItem(storage, "demo_logged_in") = Str("true")) <=> isLoggedIn
    /\ LET fresh == DemoConstructor(storage)
       IN  /\ SameList(fresh.posts, dposts)
           /\ isAuthenticated(fresh.isLoggedIn) = isAuthenticated(isLoggedIn)
           /\ getCurrentUser(fresh.isLoggedIn, fresh.storage)
                  = getCurrentUser(isLoggedIn, storage)

\* C13 witness: a logged-in instance that has just created a post
C13_Witness ==
    /\ isLoggedIn
    /\ dlast.op = "createPost" /\ dlast.outcome = "resolved"
    /\ Len(dposts) = Len(mockPosts) + 1
    /\ getCurrentUser(isLoggedIn, storage) = mockUser

\* a setTimeout callback of the Demo API runs in this step
Fired == Len(timers') < Len(timers) /\ dlast'.op # "reload"

\* C15 as claimed: calls take effect in the order they were made: the callback that
\* runs is the one of the earliest call still pending, so each call sees the state
\* left by the calls made before it.
C15_CallsTakeEffectInOrder == [][Fired => timers' = Tail(timers)]_vars

\* C18: a createPost or deletePost whose timer fires while the instance is not
\* logged in resolves {success: false, message: 'Not authenticated'} and leaves the
\* in-memory list, the storage and the login state as they were.
C18_NotAuthenticatedChangesNothing ==
    [][(Fired /\ dlast'.op \in {"createPost", "deletePost"} /\ ~isLoggedIn) =>
          /\ dlast'.outcome = "resolved"
          /\ dlast'.value = NotAuthenticated
          /\ dposts' = dposts
          /\ storage' = storage
          /\ isLoggedIn' = isLoggedIn]_vars

\* C18 witness: a deletePost of the first mock post was refused
C18_Witness ==
    /\ dlast.op = "deletePost" /\ ~dlast.loggedIn
    /\ dlast.args = <<Num(1)>>
    /\ dlast.value = NotAuthenticated
    /\ dposts = mockPosts

\* C19 as claimed: all posts of the list have pairwise distinct identifiers.
C19_DistinctIds ==
    \A i \in 1..Len(dposts), j \in 1..Len(dposts) :
        i # j => Prop(dposts[i], "id") # Prop(dposts[j], "id")

(***************************************************************************)
(* Claims about login                                                      *)
(***************************************************************************)
LiteralCredentials == input = <<Str("admin"), Str("admin123")>>

\* a login answer: success exactly for the literal credentials, then with a token
\* and a user, and otherwise with a message and no token
LoginDescriptorRight(d) ==
    /\ d.success = LiteralCredentials
    /\ d.success => {"token", "user"} \subseteq DOMAIN d
    /\ ~d.success => "message" \in DOMAIN d /\ "token" \notin DOMAIN d

\* C1: for every (username, password), POST /api/auth/login and DemoAPI.login answer
\* success=true with a token and a user if and only if username is 'admin' and
\* password is 'admin123', and success=false with a message and no token otherwise.
C1_LoginIffLiteralCredentials ==
    /\ LoginAnswered =>
          /\ srvLast.req.body = JSONStringify(CredentialObject(input[1], input[2]))
          /\ srvLast.res.body.t = "json"
          /\ LoginDescriptorRight(srvLast.res.body.v)
          /\ srvLast.res.status = IF LiteralCredentials THEN 200 ELSE 400
    /\ (dlast.op = "login") =>
          /\ dlast.args = input
          /\ dlast.outcome = "resolved"
          /\ LoginDescriptorRight(dlast.value)
          /\ dlast.value.success => isLoggedIn

\* C1 witness: the literal credentials were accepted by the server and the Demo API
C1_Witness ==
    /\ LoginAnswered /\ srvLast.res = Response(200, JsonBody(LoginOK))
    /\ dlast.op = "login" /\ dlast.value.success /\ ~dlast.loggedIn /\ isLoggedIn

(***************************************************************************)
(* Claims about the controller                                             *)
(***************************************************************************)
\* C5: once initializeApp has run, the data-theme attribute is the stored theme, or
\* 'light' when none is stored; and until the next toggle it is the theme that was
\* applied when the page was reloaded.
C5_ThemePersists ==
    (pc = "ready") =>
        /\ dataTheme = (IF getItem(storage, "theme") = Null THEN Str("light")
                        ELSE getItem(storage, "theme"))
        /\ (themeBefore # Null) => dataTheme = themeBefore

\* C5 witness: a page toggled to dark, reloaded and initialised
C5_Witness ==
    /\ pc = "ready"
    /\ themeBefore = Str("dark")
    /\ dataTheme = Str("dark")

\* C9 as claimed: on a static host the controller is served by window.demoAPI: no
\* HTTP request goes out, and a user logged in by the controller is logged in there.
C9_StaticHostUsesDemoAPI ==
    isStaticDeployment(hostname) =>
        /\ fetches = <<>>
        /\ (currentUser # Null) => isLoggedIn

\* C10 as claimed: a user logged in before a reload is logged in after it, with
\* currentUser set and the authToken still stored, once the server has answered
\* the GET /api/auth/verify of the reloaded page.
C10_LoginSurvivesReload == restore # "lostAnswered"

(***************************************************************************)
(* Claims about the API client                                             *)
(***************************************************************************)
LastTokenCall == tokenCalls[Len(tokenCalls)]

\* the token the last call asked the client to hold
LastTokenSet == IF LastTokenCall.op = "setToken" THEN LastTokenCall.arg ELSE Null

\* C12 as claimed: after any setToken and clearToken calls getToken() returns the
\* last token set (null after clearToken), the authToken entry holds that token and
\* is absent exactly when the client holds none, and a new APIClient starts with it.
C12_TokenPersisted ==
    (tokenCalls # <<>>) =>
        /\ getToken(token) = LastTokenSet
        /\ IF token \in {Null, Undefined}
           THEN getItem(storage, "authToken") = Null
           ELSE getItem(storage, "authToken") = token
        /\ IF token \in {Null, Undefined}
           THEN APIClientConstructor(storage) = Null
           ELSE APIClientConstructor(storage) = token

\* C12 amended: getToken() returns the value the last call set (null after
\* clearToken); when that value is a non-empty string the authToken entry holds it
\* and a new APIClient starts with it; when it is the empty string, null or
\* undefined the entry is absent and a new APIClient starts with null.
C12_NonEmptyTokenPersisted ==
    (tokenCalls # <<>>) =>
        /\ getToken(token) = LastTokenSet
        /\ getItem(storage, "authToken") = (IF Truthy(token) THEN token ELSE Null)
        /\ APIClientConstructor(storage) = (IF Truthy(token) THEN token ELSE Null)

\* C12 witness: a token set after a clearToken, held and stored
C12_Witness ==
    /\ Len(tokenCalls) = 3
    /\ tokenCalls[2].op = "clearToken"
    /\ LastTokenCall = [op |-> "setToken", arg |-> Str("demo_token_1500")]
    /\ token = Str("demo_token_1500")
    /\ getItem(storage, "authToken") = Str("demo_token_1500")

\* C20 as claimed: window.apiClient.getToken() is the authToken entry of local
\* storage, both absent or both the same token.
C20_ClientTokenIsStoredToken ==
    IF getItem(storage, "authToken") = Null
    THEN getToken(token) \in {Null, Undefined, Str("")}
    ELSE getToken(token) = getItem(storage, "authToken")

(***************************************************************************)
(* Claims about loading posts                                              *)
(***************************************************************************)
LoadCount(fs) == Cardinality({i \in 1..Len(fs) : fs[i].req.kind = "loadPosts"})

\* the response of a loadPosts arrives in this step
LoadSettled == pc' = "ready" /\ LoadCount(fetches') < LoadCount(fetches)

\* the fetch failed, its body is not JSON, or the response has no true success
LoadFailed(o) ==
    \/ o.kind = "error"
    \/ o.res.body.t # "json"
    \/ ~HasTrue(o.res.body.v, "success")

\* C14: the list displayed is the one carried by the loadPosts response that
\* arrived last, also when its request was sent before one answered earlier.
C14_LastResponseWins ==
    (lastLoad.out.kind = "response" /\ ~LoadFailed(lastLoad.out)) =>
        /\ posts = lastLoad.out.res.body.v.posts
        /\ postsGrid = "post-cards"

\* C14 witness: the list displayed came with a response that arrived after the
\* response of a request sent later, and was produced before the clock moved
C14_Witness ==
    /\ lastLoad.late
    /\ now > StartTime
    /\ posts = ServerPosts(StartTime)
    /\ fetches = <<>>

\* C16: when a loadPosts fails, cannot be parsed or has success false, posts becomes
\* empty and is rendered as the empty state, no request is sent again and
\* currentUser stays as it was.
C16_FailedLoadEmptiesList ==
    [][(LoadSettled /\ LoadFailed(lastLoad'.out)) =>
          /\ posts' = <<>>
          /\ postsGrid' = "empty-state"
          /\ Len(fetches') = Len(fetches) - 1
          /\ currentUser' = currentUser
          /\ storage' = storage]_vars

\* C16 witness: a logged-in user's list emptied by a success: false response
C16_Witness ==
    /\ lastLoad.out.kind = "response"
    /\ lastLoad.out.res.status = 500
    /\ posts = <<>>
    /\ postsGrid = "empty-state"
    /\ currentUser # Null

(***************************************************************************)
(* Claims about the editor                                                 *)
(***************************************************************************)
EditCount(fs) == Cardinality({i \in 1..Len(fs) : fs[i].req.kind \in EditKinds})

\* the response of a createPost, updatePost or deletePost arrives in this step
EditSettled == pc' = "ready" /\ EditCount(fetches') < EditCount(fetches)

\* the function ends in failure: no success notification, the editor not cleared,
\* no reload of the posts
EditFails ==
    EditSettled =>
        /\ lastEdit'.result \in {"failed", "error"}
        /\ form' = form
        /\ editingPostId' = editingPostId
        /\ submitBtn' = submitBtn
        /\ Len(fetches') = Len(fetches) - 1

SameButDate(a, b) ==
    Len(a) = Len(b) /\ \A i \in 1..Len(a) : WithoutDate(a[i]) = WithoutDate(b[i])

\* C11 as claimed: with the server of api.js createPost, updatePost and deletePost
\* always fail, and a list loaded after them is the list loaded before them.
C11_EditsFailListSame ==
    [][/\ EditFails
       /\ (LoadSettled /\ Len(posts) > 0 /\ Len(posts') > 0) => posts' = posts]_vars

\* C11 amended: with the server of api.js createPost, updatePost and deletePost
\* always fail, and a list loaded after them is the list loaded before them in
\* every field but date, which follows the clock.
C11_EditsFailListSameButDate ==
    [][/\ EditFails
       /\ (LoadSettled /\ Len(posts) > 0 /\ Len(posts') > 0) => SameButDate(posts', posts)]_vars

\* C11 witness: an update answered by the server's default response, the editor
\* still filled and the server's posts displayed
C11_Witness ==
    /\ lastEdit = [op |-> "updatePost", result |-> "failed"]
    /\ form \in FormInputs
    /\ Len(posts) = 2

\* a createPost or updatePost request is sent in this step
EditSent ==
    /\ Len(fetches') = Len(fetches) + 1
    /\ fetches'[Len(fetches')].req.kind \in {"createPost", "updatePost"}

\* C17: the submit button reads 'Update Post' exactly while the pointer is set;
\* the pointer is set only to the id of a loaded post; a submit sends updatePost
\* with the pointer when it is set and createPost otherwise; a successful create or
\* update resets the pointer to null; a failed update leaves it as it was.
C17_PointerSwitchesForm ==
    [][/\ (submitBtn' = "Update Post") <=> Truthy(editingPostId')
       /\ (editingPostId' # editingPostId /\ Truthy(editingPostId')) =>
              \E k \in 1..Len(posts) : HasId(posts[k], editingPostId'.s)
       /\ EditSent =>
              fetches'[Len(fetches')].req =
                  (IF Truthy(editingPostId)
                   THEN UpdatePostFetch(editingPostId.s, form)
                   ELSE CreatePostFetch(form))
       /\ (EditSettled /\ lastEdit'.op # "deletePost" /\ lastEdit'.result = "success") =>
              editingPostId' = Null /\ submitBtn' = "Publish Post"
       /\ (EditSettled /\ lastEdit'.op = "updatePost" /\ lastEdit'.result # "success") =>
              editingPostId' = editingPostId]_vars

\* C17 witness: an update succeeded and the form is back in create mode
C17_Witness ==
    /\ lastEdit = [op |-> "updatePost", result |-> "success"]
    /\ editingPostId = Null
    /\ submitBtn = "Publish Post"

\* C17 witness of the other half: an update failed and the pointer is still set
C17_FailedUpdateSeen ==
    /\ lastEdit = [op |-> "updatePost", result |-> "failed"]
    /\ editingPostId = Str("p1")
    /\ submitBtn = "Update Post"

\* both scripts of the page have run
ScriptsRan == pc = "loading"

\* C21: once config.js and demo-mode.js have run on a page, window.demoAPI exists
\* exactly when the configuration chosen for the page's hostname has DEMO_MODE set
\* to true, and a page whose hostname getEnvironment() classifies as 'development'
\* has no window.demoAPI.
C21_DemoAgreesWithConfig ==
    ScriptsRan =>
        /\ (demoAPI = DemoInstance) <=> HasTrue(APP_CONFIG, "DEMO_MODE")
        /\ getEnvironment(hostname) = "development" => demoAPI = Undefined

\* C21, second half alone: a 'development' page has no window.demoAPI
C21_DevelopmentHasNoDemo ==
    ScriptsRan /\ getEnvironment(hostname) = "development" => demoAPI = Undefined

\* C21, one direction of the first half: a page whose configuration has DEMO_MODE
\* set to true has window.demoAPI
C21_DemoModeHasDemo ==
    ScriptsRan /\ HasTrue(APP_CONFIG, "DEMO_MODE") => demoAPI = DemoInstance

\* C21, the other direction: a page with window.demoAPI has DEMO_MODE set to true
C21_DemoHasDemoMode ==
    ScriptsRan /\ demoAPI = DemoInstance => HasTrue(APP_CONFIG, "DEMO_MODE")
====
